---- MODULE Spec2Model ----
(***************************************************************************)
(* Bracket Monte Carlo simulation of johngarnett/pinball-state-champs-sim. *)
(*                                                                         *)
(* Two entry points run the same trial loop: src/state.js (top-level       *)
(* script) and src/unnamed/part_000 (async main).  The model keeps the     *)
(* competitor accumulators, the bracket template, the working bracket, the *)
(* consolation pair and the loop counters.  Ratings only shape the         *)
(* probability of a game result; every game result the generator can       *)
(* deliver is enumerated, so rating and rd are not part of the state.      *)
(*                                                                         *)
(* Array indices are 1-based here: JS players[i] is players[i + 1],        *)
(* wins[r - 1] is wins[r], field[s - 1] is field[s].                       *)
(***************************************************************************)
EXTENDS Integers, Sequences, FiniteSets, TLC

VARIABLES
    pc,               \* position of the script
    ITERATIONS,       \* parseInt(options.iterations, 10)
    field,            \* roster with accumulators, in row order of the input
    bracketTemplate,  \* parsed bracket file
    bracket,          \* working copy of one trial
    consolation,      \* losers of the round (rounds - 1) matches
    matches,          \* non-final match keys in numeric order
    rounds,
    ww,               \* trial counter
    zz,               \* match counter inside a trial
    upsets,           \* matches of the run won by the players[1] occupant
    results,          \* rows built by the result loop
    playIn,           \* arguments and game results of one call of play
    playOut,          \* what that call returned
    dir,              \* result files of one output name: version -> content
    written           \* what the last run wrote, and where

vars == <<pc, ITERATIONS, field, bracketTemplate, bracket, consolation,
          matches, rounds, ww, zz, upsets, results, playIn, playOut, dir, written>>

\* the variables of the simulation run
runVars == <<pc, ITERATIONS, field, bracketTemplate, bracket, consolation,
             matches, rounds, ww, zz, upsets, results>>

\* the variables of a single call of play
playVars == <<playIn, playOut>>

\* the variables of the results directory
outVars == <<dir, written>>

(***************************************************************************)
(* Bounds of the exploration.                                              *)
(***************************************************************************)
MaxIterations == 2
MaxUpsets == 1

\* a call of play is given an odd games of at most 2 * MaxHalf + 1
MaxHalf == 3

\* result files found at the start carry versions up to MaxVersion (0 is the
\* unversioned base file); at most MaxRuns runs write to the directory
MaxVersion == 2
MaxRuns == 2

\* roster sizes offered as input: the two supported ones and one that is not
FieldLens == {16, 17, 24}

(***************************************************************************)
(* Match keys are strings "w<number>", kept as character sequences so that *)
(* slice(1) and parseInt are computed and not assumed.                     *)
(***************************************************************************)
DigitChars == <<"0", "1", "2", "3", "4", "5", "6", "7", "8", "9">>

RECURSIVE Digits(_)
Digits(n) == IF n < 10 THEN <<DigitChars[n + 1]>>
             ELSE Append(Digits(n \div 10), DigitChars[(n % 10) + 1])

Key(n) == <<"w">> \o Digits(n)

DigitVal(c) == CHOOSE d \in 0..9 : DigitChars[d + 1] = c

RECURSIVE ParseIntAcc(_, _)
ParseIntAcc(s, acc) == IF s = <<>> THEN acc
                       ELSE ParseIntAcc(Tail(s), 10 * acc + DigitVal(Head(s)))

\* parseInt(a.slice(1))
KeyNumber(a) == ParseIntAcc(Tail(a), 0)

\* digit strings compared character by character, a prefix going first
RECURSIVE LexCompare(_, _)
LexCompare(a, b) ==
    IF a = <<>> THEN (IF b = <<>> THEN 0 ELSE -1)
    ELSE IF b = <<>> THEN 1
    ELSE IF Head(a) = Head(b) THEN LexCompare(Tail(a), Tail(b))
    ELSE DigitVal(Head(a)) - DigitVal(Head(b))

\* variant of CompareKeys: the default sort of strings, without the comparator
CompareKeysLexical(a, b) == LexCompare(Tail(a), Tail(b))

\* the comparator of the sort: negative when a goes first
CompareKeys(a, b) == KeyNumber(a) - KeyNumber(b)

RECURSIVE InsertSorted(_, _)
InsertSorted(sorted, k) ==
    IF sorted = <<>> THEN <<k>>
    ELSE IF CompareKeys(k, Head(sorted)) < 0 THEN <<k>> \o sorted
         ELSE <<Head(sorted)>> \o InsertSorted(Tail(sorted), k)

RECURSIVE SortKeys(_)
SortKeys(s) == IF s = <<>> THEN <<>>
               ELSE InsertSorted(SortKeys(SubSeq(s, 1, Len(s) - 1)), s[Len(s)])

(***************************************************************************)
(* Bracket files.  A match is {round, players, feeds, final}; an           *)
(* unresolved slot is 0, the slot index of feeds is 0 or 1 as in the file. *)
(***************************************************************************)
Match(r, p0, p1, dest, slot) ==
    [round |-> r, players |-> <<p0, p1>>, feeds |-> <<Key(dest), slot>>, final |-> FALSE]

Holder == [round |-> 0, players |-> <<0>>, feeds |-> <<>>, final |-> TRUE]

TemplateOf(entries) ==
    [k \in {Key(e[1]) : e \in entries} |->
        (CHOOSE e \in entries : Key(e[1]) = k)[2]]

\* 16 competitors, 15 matches, 4 rounds; w16 holds the champion
Bracket16 == TemplateOf({
    <<1, Match(1, 1, 16, 9, 0)>>,   <<2, Match(1, 8, 9, 9, 1)>>,
    <<3, Match(1, 4, 13, 10, 0)>>,  <<4, Match(1, 5, 12, 10, 1)>>,
    <<5, Match(1, 2, 15, 11, 0)>>,  <<6, Match(1, 7, 10, 11, 1)>>,
    <<7, Match(1, 3, 14, 12, 0)>>,  <<8, Match(1, 6, 11, 12, 1)>>,
    <<9, Match(2, 0, 0, 13, 0)>>,   <<10, Match(2, 0, 0, 13, 1)>>,
    <<11, Match(2, 0, 0, 14, 0)>>,  <<12, Match(2, 0, 0, 14, 1)>>,
    <<13, Match(3, 0, 0, 15, 0)>>,  <<14, Match(3, 0, 0, 15, 1)>>,
    <<15, Match(4, 0, 0, 16, 0)>>,
    <<16, Holder>> })

\* 24 competitors, 23 matches, 5 rounds; seeds 1..8 enter in round 2;
\* w32 holds the champion
Bracket24 == TemplateOf({
    <<2, Match(1, 16, 17, 17, 1)>>,  <<3, Match(1, 9, 24, 18, 0)>>,
    <<6, Match(1, 12, 21, 19, 1)>>,  <<7, Match(1, 13, 20, 20, 0)>>,
    <<10, Match(1, 14, 19, 21, 1)>>, <<11, Match(1, 11, 22, 22, 0)>>,
    <<14, Match(1, 10, 23, 23, 1)>>, <<15, Match(1, 15, 18, 24, 0)>>,
    <<17, Match(2, 1, 0, 25, 0)>>,   <<18, Match(2, 0, 8, 25, 1)>>,
    <<19, Match(2, 5, 0, 26, 0)>>,   <<20, Match(2, 0, 4, 26, 1)>>,
    <<21, Match(2, 3, 0, 27, 0)>>,   <<22, Match(2, 0, 6, 27, 1)>>,
    <<23, Match(2, 7, 0, 28, 0)>>,   <<24, Match(2, 0, 2, 28, 1)>>,
    <<25, Match(3, 0, 0, 29, 0)>>,   <<26, Match(3, 0, 0, 29, 1)>>,
    <<27, Match(3, 0, 0, 30, 0)>>,   <<28, Match(3, 0, 0, 30, 1)>>,
    <<29, Match(4, 0, 0, 31, 0)>>,   <<30, Match(4, 0, 0, 31, 1)>>,
    <<31, Match(5, 0, 0, 32, 0)>>,
    <<32, Holder>> })

\* a bracket of 8 competitors, 7 matches: a shape the program does not support
Bracket8 == TemplateOf({
    <<1, Match(1, 1, 8, 5, 0)>>,  <<2, Match(1, 4, 5, 5, 1)>>,
    <<3, Match(1, 2, 7, 6, 0)>>,  <<4, Match(1, 3, 6, 6, 1)>>,
    <<5, Match(2, 0, 0, 7, 0)>>,  <<6, Match(2, 0, 0, 7, 1)>>,
    <<7, Match(3, 0, 0, 8, 0)>>,
    <<8, Holder>> })

BracketFiles == {Bracket8, Bracket16, Bracket24}

\* slurp(`./data/bracket-${field.length}.json`)
BracketFileFor(n) == IF n = 24 THEN Bracket24 ELSE Bracket16

RECURSIVE SetToSortedSeq(_)
SetToSortedSeq(S) ==
    IF S = {} THEN <<>>
    ELSE LET k == CHOOSE x \in S : \A y \in S : KeyNumber(x) <= KeyNumber(y)
         IN  <<k>> \o SetToSortedSeq(S \ {k})

Reverse(s) == [i \in 1..Len(s) |-> s[Len(s) + 1 - i]]

\* Object.keys(bracketTemplate): the keys in the order the file lists them;
\* a file may list them in ascending or in descending order
KeyOrders(t) == {SetToSortedSeq(DOMAIN t), Reverse(SetToSortedSeq(DOMAIN t))}

RECURSIVE FilterNonFinal(_, _)
FilterNonFinal(t, keys) ==
    IF keys = <<>> THEN <<>>
    ELSE IF t[Head(keys)].final THEN FilterNonFinal(t, Tail(keys))
         ELSE <<Head(keys)>> \o FilterNonFinal(t, Tail(keys))

\* Object.keys(...).filter(k => !bracketTemplate[k].final).sort(...)
MatchKeys(t, keys) == SortKeys(FilterNonFinal(t, keys))

RoundsOf(ms) == IF Len(ms) = 23 THEN 5 ELSE 4

(***************************************************************************)
(* Roster.                                                                 *)
(***************************************************************************)
NewCompetitor(s) ==
    [seed |-> s, wins |-> <<0, 0, 0, 0, 0>>,
     gold |-> 0, silver |-> 0, bronze |-> 0, place |-> 0]

\* the rows of a roster of n competitors with seeds 1..n: in seed order, or
\* with the first two rows exchanged
RowOrders(n) == {[i \in 1..n |-> i],
                 [i \in 1..n |-> IF i = 1 THEN 2 ELSE IF i = 2 THEN 1 ELSE i]}

\* readField: records.map(...), one competitor per row, in the order of the rows
readField(order) == [i \in 1..Len(order) |-> NewCompetitor(order[i])]

RECURSIVE InsertBySeed(_, _)
InsertBySeed(sorted, c) ==
    IF sorted = <<>> THEN <<c>>
    ELSE IF c.seed - Head(sorted).seed < 0 THEN <<c>> \o sorted
         ELSE <<Head(sorted)>> \o InsertBySeed(Tail(sorted), c)

\* field.sort((a, b) => a.seed - b.seed)
RECURSIVE SortBySeed(_)
SortBySeed(fld) ==
    IF fld = <<>> THEN <<>>
    ELSE InsertBySeed(SortBySeed(SubSeq(fld, 1, Len(fld) - 1)), fld[Len(fld)])

\* getTournamentField: the players in the order of the service, sorted by seed
getTournamentField(order) == SortBySeed(readField(order))

VALID_FIELD_SIZES == {16, 24}

\* f(s) is field[s - 1]; undefined outside the array
FDefined(fld, s) == s \in 1..Len(fld)

(***************************************************************************)
(* play(s1, s2, games): the game loop on a given sequence of game results  *)
(* (TRUE: matchRng() < p).  PlayLoop returns <<w1, w2, games played>>.     *)
(***************************************************************************)
\* variant of PlayLoop: the for loop without its break
RECURSIVE PlayLoopNoBreak(_, _, _, _, _)
PlayLoopNoBreak(games, g, i, w1, w2) ==
    IF i >= games THEN <<w1, w2, i>>
    ELSE PlayLoopNoBreak(games, g, i + 1,
                         IF g[i + 1] THEN w1 + 1 ELSE w1,
                         IF g[i + 1] THEN w2 ELSE w2 + 1)

RECURSIVE PlayLoop(_, _, _, _, _)
PlayLoop(games, g, i, w1, w2) ==
    IF i >= games THEN <<w1, w2, i>>
    ELSE LET n1 == IF g[i + 1] THEN w1 + 1 ELSE w1
             n2 == IF g[i + 1] THEN w2 ELSE w2 + 1
         IN  IF (2 * n1 > games) \/ (2 * n2 > games)
             THEN <<n1, n2, i + 1>>
             ELSE PlayLoop(games, g, i + 1, n1, n2)

\* slot (0 or 1) of the side play returns: (w1 > w2) ? s1 : s2
PlaySlot(games, g) ==
    LET r == PlayLoop(games, g, 0, 0, 0) IN IF r[1] > r[2] THEN 0 ELSE 1

\* play(s1, s2, games) on the game results g: the side returned, with the
\* counters and the number of games played when the loop was left
play(s1, s2, games, g) ==
    LET r == PlayLoop(games, g, 0, 0, 0)
    IN  [winner |-> IF r[1] > r[2] THEN s1 ELSE s2,
         w1 |-> r[1], w2 |-> r[2], n |-> r[3]]

\* every slot a best-of-7 and a best-of-3 can return
WinnerSlots7 == {PlaySlot(7, g) : g \in [1..7 -> BOOLEAN]}
WinnerSlots3 == {PlaySlot(3, g) : g \in [1..3 -> BOOLEAN]}

(***************************************************************************)
(* The body of the trial loop.                                             *)
(***************************************************************************)
\* variant of TieCredit: the switch without its break statements
TieCreditFallThrough(round) ==
    CASE round = 1 -> 17 + 9 + 5
      [] round = 2 -> 9 + 5
      [] round = 3 -> 5
      [] OTHER -> 0

\* the switch on match.round: tied placement of the losers of a round
TieCredit(round) ==
    CASE round = 1 -> 17
      [] round = 2 -> 9
      [] round = 3 -> 5
      [] OTHER -> 0

AddPlace(fld, s, n) == [fld EXCEPT ![s].place = @ + n]

\* variant of IncWins: the index is not shifted to the 0-based array
IncWinsUnshifted(fld, s, round) ==
    [fld EXCEPT ![s].wins[IF round < 5 THEN round + 1 ELSE round] = @ + 1]

\* f(winner).wins[match.round - 1]++
IncWins(fld, s, round) == [fld EXCEPT ![s].wins[round] = @ + 1]

\* variant of CreditLoser: a second if with <= in place of the else if with <
CreditLoserTieAtSemifinal(fld, cons, round, rnds, loser) ==
    [field       |-> IF round <= rnds - 1
                     THEN AddPlace(fld, loser, TieCredit(round)) ELSE fld,
     consolation |-> IF round = rnds - 1 THEN Append(cons, loser) ELSE cons]

\* the if / else if on match.round: consolation push or tie credit of the loser
CreditLoser(fld, cons, round, rnds, loser) ==
    IF round = rnds - 1
    THEN [field |-> fld, consolation |-> Append(cons, loser)]
    ELSE IF round < rnds - 1
         THEN [field |-> AddPlace(fld, loser, TieCredit(round)), consolation |-> cons]
         ELSE [field |-> fld, consolation |-> cons]

\* bracket[match.feeds[0]].players[match.feeds[1]] = winner
FeedWinner(br, match, winner) ==
    [br EXCEPT ![match.feeds[1]].players[match.feeds[2] + 1] = winner]

\* one pass of the inner loop for match key m, play having returned the
\* occupant of slot `slot`
ResolveMatch(fld, br, cons, m, rnds, slot) ==
    LET match  == br[m]
        s1     == match.players[1]
        s2     == match.players[2]
        winner == IF slot = 0 THEN s1 ELSE s2
        loser  == IF winner = s1 THEN s2 ELSE s1
        c      == CreditLoser(fld, cons, match.round, rnds, loser)
    IN  [field       |-> IncWins(c.field, winner, match.round),
         bracket     |-> FeedWinner(br, match, winner),
         consolation |-> c.consolation]

\* <<ultimate, penultimate>>, or <<>> where the code calls process.exit(2)
finalMatchKeys(ms) ==
    IF Len(ms) = 23 THEN <<Key(32), Key(31)>>
    ELSE IF Len(ms) = 15 THEN <<Key(16), Key(15)>>
    ELSE <<>>

\* variant of SilverSeed: the champion is taken to come from slot 0 always
SilverSeedSecondSlot(br, ultimate, penultimate) == br[penultimate].players[2]

\* the seed that gets silver
SilverSeed(br, ultimate, penultimate) ==
    IF br[ultimate].players[1] = br[penultimate].players[1]
    THEN br[penultimate].players[2]
    ELSE br[penultimate].players[1]

\* variant of CreditGold: the place credit is left out
CreditGoldNoPlace(fld, s) == [fld EXCEPT ![s].gold = @ + 1]

CreditGold(fld, s) == AddPlace([fld EXCEPT ![s].gold = @ + 1], s, 1)

\* variant of CreditSilver: the silver count without the placement credit
CreditSilverNoPlace(fld, s) == [fld EXCEPT ![s].silver = @ + 1]

CreditSilver(fld, s) == AddPlace([fld EXCEPT ![s].silver = @ + 1], s, 2)

\* variant of playForThird: the comparison with consolation[0] is negated, so
\* the 4th place goes to the winner of the match
playForThirdNegated(fld, cons, slot) ==
    LET winner == cons[slot + 1]
        other  == IF winner # cons[1] THEN cons[2] ELSE cons[1]
        f1     == AddPlace([fld EXCEPT ![winner].bronze = @ + 1], winner, 3)
    IN  AddPlace(f1, other, 4)

\* playForThird, play(consolation[0], consolation[1], 3) having returned the
\* occupant of slot `slot`
playForThird(fld, cons, slot) ==
    LET winner == cons[slot + 1]
        other  == IF winner = cons[1] THEN cons[2] ELSE cons[1]
        f1     == AddPlace([fld EXCEPT ![winner].bronze = @ + 1], winner, 3)
    IN  AddPlace(f1, other, 4)

\* one output row: every accumulator is divided by ITERATIONS when printed;
\* the row keeps the numerators, results.iterations the denominator
ResultRow(c, rnds) ==
    [seed |-> c.seed, wins |-> SubSeq(c.wins, 1, rnds - 1),
     gold |-> c.gold, silver |-> c.silver, bronze |-> c.bronze, place |-> c.place]

(***************************************************************************)
(* Initial state and actions.                                              *)
(***************************************************************************)
Init ==
    /\ pc = "start"
    /\ ITERATIONS \in 0..MaxIterations
    /\ field = <<>>
    /\ bracketTemplate = <<>>
    /\ bracket = <<>>
    /\ consolation = <<>>
    /\ matches = <<>>
    /\ rounds = 0
    /\ ww = 0
    /\ zz = 0
    /\ upsets = 0
    /\ results = [iterations |-> 0, rows |-> <<>>]
    /\ playIn = <<>>
    /\ playOut = <<>>
    /\ dir = <<>>
    /\ written = <<>>

\* src/state.js: readField, slurp, matches, rounds; the roster is not checked
StateSetup ==
    /\ pc = "start"
    /\ \E n \in FieldLens, t \in BracketFiles :
          \E keys \in KeyOrders(t), order \in RowOrders(n) :
             /\ field' = readField(order)
             /\ bracketTemplate' = t
             /\ matches' = MatchKeys(t, keys)
             /\ rounds' = RoundsOf(MatchKeys(t, keys))
    /\ pc' = "loop"
    /\ UNCHANGED <<ITERATIONS, bracket, consolation, ww, zz, upsets, results>>
    /\ UNCHANGED <<playVars, outVars>>

\* src/unnamed/part_000 main: roster, VALID_FIELD_SIZES check, accumulators,
\* bracket-<length>.json, matches, rounds
MainSetup ==
    /\ pc = "start"
    /\ \E n \in FieldLens :
          IF n \notin VALID_FIELD_SIZES
          THEN /\ pc' = "exit1"
               /\ UNCHANGED <<field, bracketTemplate, matches, rounds>>
          ELSE \E keys \in KeyOrders(BracketFileFor(n)),
                  order \in RowOrders(n), tournament \in BOOLEAN :
                  /\ field' = IF tournament THEN getTournamentField(order)
                               ELSE readField(order)
                  /\ bracketTemplate' = BracketFileFor(n)
                  /\ matches' = MatchKeys(BracketFileFor(n), keys)
                  /\ rounds' = RoundsOf(MatchKeys(BracketFileFor(n), keys))
                  /\ pc' = "loop"
    /\ UNCHANGED <<ITERATIONS, bracket, consolation, ww, zz, upsets, results>>
    /\ UNCHANGED <<playVars, outVars>>

\* variant of TrialStart: the template is cloned once, before the first trial
TrialStartCloneOnce ==
    /\ pc = "loop"
    /\ ww < ITERATIONS
    /\ bracket' = IF ww = 0 THEN bracketTemplate ELSE bracket
    /\ consolation' = <<>>
    /\ zz' = 0
    /\ pc' = IF Len(matches) = 0 THEN "credit" ELSE "match"
    /\ UNCHANGED <<ITERATIONS, field, bracketTemplate, matches, rounds, ww,
                   upsets, results>>
    /\ UNCHANGED <<playVars, outVars>>

\* head of the trial loop: deep clone of the template, empty consolation
TrialStart ==
    /\ pc = "loop"
    /\ ww < ITERATIONS
    /\ bracket' = bracketTemplate
    /\ consolation' = <<>>
    /\ zz' = 0
    /\ pc' = IF Len(matches) = 0 THEN "credit" ELSE "match"
    /\ UNCHANGED <<ITERATIONS, field, bracketTemplate, matches, rounds, ww,
                   upsets, results>>
    /\ UNCHANGED <<playVars, outVars>>

\* one pass of the inner loop; play throws a TypeError when f(s1) or f(s2)
\* is undefined
PlayMatch ==
    /\ pc = "match"
    /\ LET m  == matches[zz + 1]
           s1 == bracket[m].players[1]
           s2 == bracket[m].players[2]
       IN  IF ~FDefined(field, s1) \/ ~FDefined(field, s2)
           THEN /\ pc' = "crashed"
                /\ UNCHANGED <<field, bracket, consolation, zz, upsets>>
           ELSE \E slot \in WinnerSlots7 :
                   /\ upsets + slot <= MaxUpsets
                   /\ LET r == ResolveMatch(field, bracket, consolation, m, rounds, slot)
                      IN  /\ field' = r.field
                          /\ bracket' = r.bracket
                          /\ consolation' = r.consolation
                   /\ upsets' = upsets + slot
                   /\ zz' = zz + 1
                   /\ pc' = IF zz + 1 < Len(matches) THEN "match" ELSE "credit"
    /\ UNCHANGED <<ITERATIONS, bracketTemplate, matches, rounds, ww, results>>
    /\ UNCHANGED <<playVars, outVars>>

\* after the inner loop: finalMatchKeys, gold, silver, playForThird, ww++
Credit ==
    /\ pc = "credit"
    /\ LET keys == finalMatchKeys(matches)
       IN  IF keys = <<>>
           THEN /\ pc' = "exit2"
                /\ UNCHANGED <<field, ww, upsets>>
           ELSE LET champion == bracket[keys[1]].players[1]
                    second   == SilverSeed(bracket, keys[1], keys[2])
                    f2       == CreditSilver(CreditGold(field, champion), second)
                IN  IF Len(consolation) < 2
                       \/ ~FDefined(field, consolation[1])
                       \/ ~FDefined(field, consolation[2])
                    THEN /\ field' = f2
                         /\ pc' = "crashed"
                         /\ UNCHANGED <<ww, upsets>>
                    ELSE \E slot \in WinnerSlots3 :
                            /\ upsets + slot <= MaxUpsets
                            /\ field' = playForThird(f2, consolation, slot)
                            /\ upsets' = upsets + slot
                            /\ ww' = ww + 1
                            /\ pc' = "loop"
    /\ UNCHANGED <<ITERATIONS, bracketTemplate, bracket, consolation, matches,
                   rounds, zz, results>>
    /\ UNCHANGED <<playVars, outVars>>

\* the result loop after the last trial
Summarize ==
    /\ pc = "loop"
    /\ ww >= ITERATIONS
    /\ results' = [iterations |-> ITERATIONS,
                   rows |-> [i \in 1..Len(field) |-> ResultRow(field[i], rounds)]]
    /\ pc' = "done"
    /\ UNCHANGED <<ITERATIONS, field, bracketTemplate, bracket, consolation,
                   matches, rounds, ww, zz, upsets>>
    /\ UNCHANGED <<playVars, outVars>>

Next ==
    \/ StateSetup
    \/ MainSetup
    \/ TrialStart
    \/ PlayMatch
    \/ Credit
    \/ Summarize

Spec == Init /\ [][Next]_vars

(***************************************************************************)
(* One call of play, on its own: the arguments and the game results are    *)
(* drawn at the start, the call is one step.                               *)
(***************************************************************************)
OddGames == {2 * h + 1 : h \in 0..MaxHalf}

\* the two sides of a match: distinct seeds
PlayPairs == {p \in (1..3) \X (1..3) : p[1] # p[2]}

PlayInputs ==
    UNION {[s1 : {p[1]}, s2 : {p[2]}, games : {n}, g : [1..n -> BOOLEAN]] :
              p \in PlayPairs, n \in OddGames}

InitPlay ==
    /\ pc = "play"
    /\ ITERATIONS = 0
    /\ field = <<>>
    /\ bracketTemplate = <<>>
    /\ bracket = <<>>
    /\ consolation = <<>>
    /\ matches = <<>>
    /\ rounds = 0
    /\ ww = 0
    /\ zz = 0
    /\ upsets = 0
    /\ results = [iterations |-> 0, rows |-> <<>>]
    /\ playIn \in PlayInputs
    /\ playOut = <<>>
    /\ dir = <<>>
    /\ written = <<>>

ApplyPlay ==
    /\ pc = "play"
    /\ playOut' = play(playIn.s1, playIn.s2, playIn.games, playIn.g)
    /\ pc' = "played"
    /\ UNCHANGED <<ITERATIONS, field, bracketTemplate, bracket, consolation,
                   matches, rounds, ww, zz, upsets, results, playIn, outVars>>

NextPlay == ApplyPlay

SpecPlay == InitPlay /\ [][NextPlay]_vars

(***************************************************************************)
(* The results directory of one output name.  dir maps a version to the    *)
(* JSON file of that version: 0 is results-<name>.json, v > 0 is           *)
(* results-<name>-<v>.json.  A file is readable (it parses and carries     *)
(* input and iterations) or not; run tells which run wrote it, 0 for a     *)
(* file found at the start.  The TSV file of a version is written next to  *)
(* the JSON file, under the same suffix.                                   *)
(***************************************************************************)
OutInputs == {1, 2}
OutIterations == {1, 2}

ResultFile(input, iterations, run) ==
    [readable |-> TRUE, input |-> input, iterations |-> iterations, run |-> run]

Unreadable == [readable |-> FALSE, input |-> 0, iterations |-> 0, run |-> 0]

FoundFiles == {ResultFile(i, n, 0) : i \in OutInputs, n \in OutIterations} \cup {Unreadable}

Directories == UNION {[S -> FoundFiles] : S \in SUBSET (0..MaxVersion)}

Highest(S) == CHOOSE v \in S : \A u \in S : u <= v

\* getOutputPaths: the version the run writes to
getOutputPaths(d, input, iterations) ==
    IF DOMAIN d = {} THEN 0
    ELSE LET maxVersion == Highest(DOMAIN d \cup {0})
             mostRecent == d[maxVersion]
         IN  IF ~mostRecent.readable THEN 0
             ELSE IF mostRecent.input = input /\ mostRecent.iterations = iterations
                  THEN maxVersion
                  ELSE maxVersion + 1

InitOut ==
    /\ pc = "out"
    /\ ITERATIONS = 0
    /\ field = <<>>
    /\ bracketTemplate = <<>>
    /\ bracket = <<>>
    /\ consolation = <<>>
    /\ matches = <<>>
    /\ rounds = 0
    /\ ww = 0
    /\ zz = 0
    /\ upsets = 0
    /\ results = [iterations |-> 0, rows |-> <<>>]
    /\ playIn = <<>>
    /\ playOut = <<>>
    /\ dir \in Directories
    /\ written = [run |-> 0, path |-> 0, input |-> 0, iterations |-> 0]

\* the end of main: getOutputPaths, then writeFileSync to the path returned
WriteResults ==
    /\ pc = "out"
    /\ written.run < MaxRuns
    /\ \E input \in OutInputs, iterations \in OutIterations :
          LET path == getOutputPaths(dir, input, iterations)
              run  == written.run + 1
          IN  /\ dir' = [v \in DOMAIN dir \cup {path} |->
                            IF v = path THEN ResultFile(input, iterations, run)
                            ELSE dir[v]]
              /\ written' = [run |-> run, path |-> path,
                             input |-> input, iterations |-> iterations]
    /\ UNCHANGED <<runVars, playVars>>

NextOut == WriteResults

SpecOut == InitOut /\ [][NextOut]_vars

(***************************************************************************)
(* Vocabulary of the properties.                                           *)
(***************************************************************************)
Competitors == 1..Len(field)

\* one of the two shapes the program supports, roster and bracket agreeing
SupportedShape ==
    \/ Len(matches) = 15 /\ Len(field) = 16
    \/ Len(matches) = 23 /\ Len(field) = 24

\* the program is between two trials, or past the last one
BetweenTrials == pc \in {"loop", "done"}

\* a step that resolves one bracket match
MatchStep == pc = "match" /\ pc' \in {"match", "credit"}

\* a step that completes a trial
TrialCompletes == pc = "credit" /\ pc' = "loop"

\* a step that begins a trial
TrialBegins == pc = "loop" /\ pc' \in {"match", "credit"}

\* in a MatchStep: the match resolved, its winner as written to the feed
\* slot, and the other occupant
CurMatch == bracket[matches[zz + 1]]
StepWinner == bracket'[CurMatch.feeds[1]].players[CurMatch.feeds[2] + 1]
StepLoser == IF StepWinner = CurMatch.players[1]
             THEN CurMatch.players[2] ELSE CurMatch.players[1]

\* at the end of the inner loop: the championship match, its winner as fed
\* forward, and the other finalist
LastMatch == bracket[matches[Len(matches)]]
Champion == bracket[LastMatch.feeds[1]].players[LastMatch.feeds[2] + 1]
RunnerUp == IF Champion = LastMatch.players[1]
            THEN LastMatch.players[2] ELSE LastMatch.players[1]

RECURSIVE SumTo(_, _)
SumTo(fn, n) == IF n = 0 THEN 0 ELSE fn[n] + SumTo(fn, n - 1)

GoldTotal(fld) == SumTo([i \in 1..Len(fld) |-> fld[i].gold], Len(fld))
SilverTotal(fld) == SumTo([i \in 1..Len(fld) |-> fld[i].silver], Len(fld))
BronzeTotal(fld) == SumTo([i \in 1..Len(fld) |-> fld[i].bronze], Len(fld))

AccumulatorsUntouched == \A i \in Competitors : field[i] = NewCompetitor(field[i].seed)

GoldOfStep == {i \in Competitors : field'[i].gold # field[i].gold}
SilverOfStep == {i \in Competitors : field'[i].silver # field[i].silver}
BronzeOfStep == {i \in Competitors : field'[i].bronze # field[i].bronze}
FourthOfStep == {i \in Competitors : field'[i].place = field[i].place + 4}

(***************************************************************************)
(* C1.  Every completed trial credits gold to exactly one competitor,      *)
(* silver to exactly one, bronze to exactly one and the 4th place (+4) to  *)
(* exactly one, the four being pairwise distinct; the gold counts of the   *)
(* roster therefore add up to the number of completed trials, and so do    *)
(* the silver and the bronze counts.                                       *)
(***************************************************************************)
C1_OneOfEachMedal ==
    [][TrialCompletes =>
         /\ Cardinality(GoldOfStep) = 1
         /\ Cardinality(SilverOfStep) = 1
         /\ Cardinality(BronzeOfStep) = 1
         /\ Cardinality(FourthOfStep) = 1
         /\ Cardinality(GoldOfStep \cup SilverOfStep \cup BronzeOfStep
                          \cup FourthOfStep) = 4
         /\ \A i \in GoldOfStep :
               field'[i].gold = field[i].gold + 1 /\ field'[i].place = field[i].place + 1
         /\ \A i \in SilverOfStep :
               field'[i].silver = field[i].silver + 1 /\ field'[i].place = field[i].place + 2
         /\ \A i \in BronzeOfStep :
               field'[i].bronze = field[i].bronze + 1 /\ field'[i].place = field[i].place + 3
         /\ GoldTotal(field') = ww'
         /\ SilverTotal(field') = ww'
         /\ BronzeTotal(field') = ww'
         /\ Len(matches) \in {15, 23}
    ]_vars

\* two trials are complete, in the 24 shape or in the 16 shape, and gold
\* went to different competitors in the two trials
C1_Witness ==
    /\ pc = "loop"
    /\ ww = 2
    /\ SupportedShape
    /\ GoldTotal(field) = 2
    /\ Cardinality({i \in Competitors : field[i].gold = 1}) = 2
    /\ BronzeTotal(field) = 2

(***************************************************************************)
(* C2.  Between trials, for every competitor and every round index k the   *)
(* count of round-(k+1) wins is at most the count of round-k wins, in the  *)
(* 16 and in the 24 shape.                                                 *)
(***************************************************************************)
C2_WinsNonIncreasing ==
    (BetweenTrials /\ SupportedShape) =>
        \A i \in Competitors : \A k \in 1..4 :
            field[i].wins[k + 1] <= field[i].wins[k]

(***************************************************************************)
(* C3.  With a number of non-final matches other than 15 and 23 the run    *)
(* aborts before any match is played and before any accumulator changes:   *)
(* it is never inside a trial, never aborts after a trial has begun and    *)
(* never completes normally.                                               *)
(***************************************************************************)
C3_UnsupportedShapeAbortsFirst ==
    (bracketTemplate # <<>> /\ Len(matches) \notin {15, 23}) =>
        /\ pc \notin {"match", "credit", "done", "crashed"}
        /\ AccumulatorsUntouched
        /\ bracket = <<>>

(***************************************************************************)
(* C4.  With a roster whose length is not 16 or 24 the run aborts before   *)
(* the bracket is loaded, before any trial and before any accumulator      *)
(* exists: whenever the program is past its setup the roster has 16 or 24  *)
(* rows.                                                                   *)
(***************************************************************************)
C4_RosterSizeChecked ==
    (pc \notin {"start", "exit1"}) => Len(field) \in VALID_FIELD_SIZES

(***************************************************************************)
(* C5.  A trial begins with the working bracket equal to the template and  *)
(* an empty consolation pair whatever the earlier trials did; beginning a  *)
(* trial changes no accumulator; once loaded the template never changes.   *)
(***************************************************************************)
C5_TrialStartsFromTemplate ==
    [][/\ TrialBegins =>
            /\ bracket' = bracketTemplate
            /\ \A k \in DOMAIN bracketTemplate :
                  bracket'[k].players = bracketTemplate[k].players
            /\ consolation' = <<>>
            /\ field' = field
       /\ (pc # "start") => bracketTemplate' = bracketTemplate
    ]_vars

\* the second trial has just begun after a first one that moved winners
\* through the bracket and credited medals
C5_Witness ==
    /\ pc = "match"
    /\ zz = 0
    /\ ww = 1
    /\ bracket = bracketTemplate
    /\ consolation = <<>>
    /\ GoldTotal(field) = 1
    /\ upsets > 0

(***************************************************************************)
(* C7.  As claimed: in both supported shapes the loser of a round-1 match  *)
(* has 17 added to placementSum, of a round-2 match 9, of a round-3 match  *)
(* 5.                                                                      *)
(***************************************************************************)
C7_TieCreditRounds123 ==
    [][(MatchStep /\ SupportedShape) =>
          /\ CurMatch.round = 1 => field'[StepLoser].place = field[StepLoser].place + 17
          /\ CurMatch.round = 2 => field'[StepLoser].place = field[StepLoser].place + 9
          /\ CurMatch.round = 3 => field'[StepLoser].place = field[StepLoser].place + 5
    ]_vars

(***************************************************************************)
(* C7 as amended.  In both supported shapes the loser of a match of a      *)
(* round before the semifinal round (rounds - 1) has 17 added for round 1, *)
(* 9 for round 2 and 5 for round 3; round 3 is such a round in the 24      *)
(* shape only.  The loser of a semifinal-round match (round 3 of the 16    *)
(* shape, round 4 of the 24 shape) gets no tie credit: it joins the        *)
(* consolation pair and gets 3 or 4 when the trial completes.              *)
(***************************************************************************)
C7_TieCreditBeforeSemifinal ==
    [][/\ (MatchStep /\ SupportedShape) =>
            /\ (CurMatch.round < rounds - 1 /\ CurMatch.round = 1) =>
                   field'[StepLoser].place = field[StepLoser].place + 17
            /\ (CurMatch.round < rounds - 1 /\ CurMatch.round = 2) =>
                   field'[StepLoser].place = field[StepLoser].place + 9
            /\ (CurMatch.round < rounds - 1 /\ CurMatch.round = 3) =>
                   field'[StepLoser].place = field[StepLoser].place + 5
            /\ CurMatch.round = rounds - 1 =>
                   /\ field'[StepLoser].place = field[StepLoser].place
                   /\ consolation' = Append(consolation, StepLoser)
       /\ (TrialCompletes /\ SupportedShape) =>
            \A j \in 1..Len(consolation) :
               field'[consolation[j]].place - field[consolation[j]].place \in {3, 4}
    ]_vars

\* a trial of the 24 shape is complete with losers of rounds 1, 2 and 3
\* credited 17, 9 and 5
C7_Witness ==
    /\ pc = "loop"
    /\ ww = 1
    /\ Len(matches) = 23
    /\ Len(field) = 24
    /\ \E i \in Competitors : field[i].place = 17 /\ field[i].wins = <<0, 0, 0, 0, 0>>
    /\ \E i \in Competitors : field[i].place = 9
    /\ \E i \in Competitors : field[i].place = 5 /\ field[i].wins[2] = 1

(***************************************************************************)
(* C8.  After N >= 1 completed trials of a supported shape every           *)
(* competitor's placementSum lies between N and 17 * N, and so does every  *)
(* printed place numerator against the printed trial count.                *)
(***************************************************************************)
C8_PlacementWithinBounds ==
    /\ (BetweenTrials /\ SupportedShape /\ ww >= 1) =>
           \A i \in Competitors :
               ww <= field[i].place /\ field[i].place <= 17 * ww
    /\ (pc = "done" /\ SupportedShape /\ results.iterations >= 1) =>
           \A i \in 1..Len(results.rows) :
               /\ results.iterations <= results.rows[i].place
               /\ results.rows[i].place <= 17 * results.iterations

\* two trials are summarized; one competitor reached 17 * N, another N
C8_Witness ==
    /\ pc = "done"
    /\ SupportedShape
    /\ results.iterations = 2
    /\ \E i \in 1..Len(results.rows) : results.rows[i].place = 34
    /\ \E i \in 1..Len(results.rows) : results.rows[i].place = 2

(***************************************************************************)
(* C9.  Resolving a match of round r adds 1 to wins[r - 1] of the winner   *)
(* of that match and changes no other wins entry of any competitor; no     *)
(* other step after the setup changes a wins entry (completing a trial,    *)
(* which credits gold and silver and plays for third, included).           *)
(***************************************************************************)
C9_WinsOnlyByMatchWinner ==
    [][/\ MatchStep =>
            \A i \in Competitors : \A k \in 1..5 :
               field'[i].wins[k] =
                  field[i].wins[k] + (IF i = StepWinner /\ k = CurMatch.round THEN 1 ELSE 0)
       /\ (~MatchStep /\ pc # "start") =>
            \A i \in Competitors : field'[i].wins = field[i].wins
    ]_vars

\* a competitor has won a round-1 and a round-2 match, one of them from
\* slot 1, and a trial has been completed
C9_Witness ==
    /\ pc = "loop"
    /\ ww = 1
    /\ upsets = 1
    /\ \E i \in Competitors : field[i].wins[1] = 1 /\ field[i].wins[2] = 1
                                /\ field[i].wins[3] = 0

(***************************************************************************)
(* C10.  Completing a trial credits gold to the winner of the last match   *)
(* of the resolution sequence and silver to the loser of that match,       *)
(* whichever slot the winner played from; the champion gets no silver.     *)
(***************************************************************************)
C10_GoldAndSilverOfFinal ==
    [][TrialCompletes =>
          /\ Champion \in {LastMatch.players[1], LastMatch.players[2]}
          /\ Champion # RunnerUp
          /\ bracket[finalMatchKeys(matches)[2]] = LastMatch
          /\ field'[Champion].gold = field[Champion].gold + 1
          /\ field'[Champion].silver = field[Champion].silver
          /\ field'[RunnerUp].silver = field[RunnerUp].silver + 1
          /\ field'[RunnerUp].gold = field[RunnerUp].gold
    ]_vars

\* a trial is complete whose champion played the championship match from
\* slot 1
C10_Witness ==
    /\ pc = "loop"
    /\ ww = 1
    /\ Champion = LastMatch.players[2]
    /\ field[Champion].gold = 1
    /\ field[LastMatch.players[1]].silver = 1

(***************************************************************************)
(* C11.  When the 3rd-place match is played the consolation pair holds     *)
(* exactly two distinct competitors, the losers of the two matches of      *)
(* round rounds - 1; neither has a tie credit of the trial (a match step   *)
(* credits nobody but its loser, the semifinal step credits nobody, and    *)
(* the two are no losers of an earlier round); the winner of the match     *)
(* gets bronze + 1 and placementSum + 3, the other placementSum + 4.       *)
(***************************************************************************)
\* in a resolved bracket: the occupant of match k that was not fed forward
LoserOf(k) ==
    LET m == bracket[k]
        w == bracket[m.feeds[1]].players[m.feeds[2] + 1]
    IN  IF w = m.players[1] THEN m.players[2] ELSE m.players[1]

MatchKeySet == {matches[j] : j \in 1..Len(matches)}
SemifinalLosers == {LoserOf(k) : k \in {x \in MatchKeySet : bracket[x].round = rounds - 1}}
TieLosers == {LoserOf(k) : k \in {x \in MatchKeySet : bracket[x].round < rounds - 1}}

C11_ThirdPlaceMatch ==
    [][/\ (MatchStep /\ SupportedShape) =>
            /\ \A i \in Competitors \ {StepLoser} : field'[i].place = field[i].place
            /\ \A j \in 1..Len(consolation) :
                  consolation[j] \notin {CurMatch.players[1], CurMatch.players[2]}
            /\ CurMatch.round = rounds - 1 =>
                  /\ consolation' = Append(consolation, StepLoser)
                  /\ field'[StepLoser].place = field[StepLoser].place
            /\ CurMatch.round # rounds - 1 => consolation' = consolation
       /\ (TrialCompletes /\ SupportedShape) =>
            /\ Len(consolation) = 2
            /\ consolation[1] # consolation[2]
            /\ {consolation[1], consolation[2]} = SemifinalLosers
            /\ {consolation[1], consolation[2]} \cap TieLosers = {}
            /\ \E w \in 1..2 :
                  LET third == consolation[w]
                      fourth == consolation[3 - w]
                  IN  /\ field'[third].bronze = field[third].bronze + 1
                      /\ field'[third].place = field[third].place + 3
                      /\ field'[fourth].bronze = field[fourth].bronze
                      /\ field'[fourth].place = field[fourth].place + 4
    ]_vars

\* a trial is complete in which the second member of the consolation pair
\* won the 3rd-place match
C11_Witness ==
    /\ pc = "loop"
    /\ ww = 1
    /\ SupportedShape
    /\ Len(consolation) = 2
    /\ field[consolation[2]].bronze = 1
    /\ field[consolation[2]].place = 3
    /\ field[consolation[1]].place = 4

(***************************************************************************)
(* C12.  For odd games and every sequence of game results, play ends after *)
(* at least (games + 1) / 2 and at most games games, right after the first *)
(* game in which one side's wins exceed games / 2, and returns that side:  *)
(* one of s1, s2, holding (games + 1) / 2 wins, the other side fewer.      *)
(***************************************************************************)
\* games among the first k that went to side 1 (b = TRUE) or side 2
GamesWon(k, b) == Cardinality({j \in 1..k : playIn.g[j] = b})

\* after k games one side has more than games / 2 wins
Decided(k) == 2 * GamesWon(k, TRUE) > playIn.games \/ 2 * GamesWon(k, FALSE) > playIn.games

C12_PlayBestOf ==
    pc = "played" =>
        LET need == (playIn.games + 1) \div 2 IN
        /\ playIn.games % 2 = 1
        /\ playOut.n >= need
        /\ playOut.n <= playIn.games
        /\ Decided(playOut.n)
        /\ \A k \in 0..(playOut.n - 1) : ~Decided(k)
        /\ playOut.w1 = GamesWon(playOut.n, TRUE)
        /\ playOut.w2 = GamesWon(playOut.n, FALSE)
        /\ playOut.winner \in {playIn.s1, playIn.s2}
        /\ playOut.winner = playIn.s1 => playOut.w1 = need /\ playOut.w2 < need
        /\ playOut.winner = playIn.s2 => playOut.w2 = need /\ playOut.w1 < need

\* a best-of-7 that went the full distance and was won by the second side
C12_Witness ==
    /\ pc = "played"
    /\ playIn.games = 7
    /\ playOut.n = 7
    /\ playOut.winner = playIn.s2

(***************************************************************************)
(* C13.  In a trial the non-final matches are played in strictly ascending *)
(* order of the number in their key (w9 before w10), each exactly once;    *)
(* the winner of a match is written to the slot its feeds names, in a      *)
(* match of greater number that has not been played yet; and a match has   *)
(* concrete seeds in both slots when it is played.                         *)
(***************************************************************************)
NonFinalKeys == {k \in DOMAIN bracketTemplate : ~bracketTemplate[k].final}

C13_MatchOrder ==
    [][/\ pc \in {"loop", "match", "credit", "done"} =>
            /\ \A j \in 1..(Len(matches) - 1) :
                  KeyNumber(matches[j]) < KeyNumber(matches[j + 1])
            /\ MatchKeySet = NonFinalKeys
       /\ TrialBegins => zz' = 0
       /\ pc = "match" =>
            /\ zz < Len(matches)
            /\ CurMatch.players[1] # 0
            /\ CurMatch.players[2] # 0
       /\ MatchStep =>
            LET dest == CurMatch.feeds[1]
                slot == CurMatch.feeds[2] + 1
            IN  /\ zz' = zz + 1
                /\ StepWinner \in {CurMatch.players[1], CurMatch.players[2]}
                /\ KeyNumber(dest) > KeyNumber(matches[zz + 1])
                /\ \A j \in 1..(zz + 1) : matches[j] # dest
                /\ bracket[dest].players[slot] = 0
                /\ bracket' = [bracket EXCEPT ![dest].players[slot] = StepWinner]
       /\ pc = "credit" => zz = Len(matches)
    ]_vars

\* w10 is about to be played after w9, both its slots filled by earlier matches
C13_Witness ==
    /\ pc = "match"
    /\ Len(matches) = 15
    /\ zz = 9
    /\ matches[zz] = Key(9)
    /\ matches[zz + 1] = Key(10)
    /\ bracket[Key(10)].players = <<13, 5>>

(***************************************************************************)
(* C14.  In a completed trial every competitor receives exactly one        *)
(* placement credit, a value of {1, 2, 3, 4, 5, 9, 17}: a match step       *)
(* credits nobody but the loser of a match before the semifinal round, the *)
(* completing step credits exactly the champion (1), the loser of the      *)
(* championship match (2) and the two semifinal losers (3 and 4), and      *)
(* every competitor but the champion is the loser of exactly one match.    *)
(* So a trial adds the same total to the roster in every trial of a shape. *)
(***************************************************************************)
PlaceAdded(i) == field'[i].place - field[i].place

PlaceTotal(fld) == SumTo([i \in 1..Len(fld) |-> fld[i].place], Len(fld))

\* what one trial adds to the roster: 16 competitors in 4 rounds, 24 in 5
ShapeTotal ==
    IF Len(matches) = 15
    THEN 8 * TieCredit(1) + 4 * TieCredit(2) + 4 + 3 + 2 + 1
    ELSE 8 * TieCredit(1) + 8 * TieCredit(2) + 4 * TieCredit(3) + 4 + 3 + 2 + 1

C14_OneCreditPerTrial ==
    [][/\ (MatchStep /\ SupportedShape) =>
            \A i \in Competitors :
                PlaceAdded(i) = IF i = StepLoser /\ CurMatch.round < rounds - 1
                                THEN TieCredit(CurMatch.round) ELSE 0
       /\ (MatchStep /\ SupportedShape /\ CurMatch.round < rounds - 1) =>
            PlaceAdded(StepLoser) \in {5, 9, 17}
       /\ (TrialCompletes /\ SupportedShape) =>
            /\ Cardinality({Champion, RunnerUp, consolation[1], consolation[2]}) = 4
            /\ {PlaceAdded(consolation[1]), PlaceAdded(consolation[2])} = {3, 4}
            /\ \A i \in Competitors \ {consolation[1], consolation[2]} :
                  PlaceAdded(i) = IF i = Champion THEN 1
                                  ELSE IF i = RunnerUp THEN 2 ELSE 0
            /\ \A i \in Competitors :
                  Cardinality({k \in MatchKeySet : LoserOf(k) = i}) =
                      IF i = Champion THEN 0 ELSE 1
            /\ PlaceTotal(field') = (ww + 1) * ShapeTotal
       /\ (BetweenTrials /\ SupportedShape) =>
            /\ PlaceTotal(field) = ww * ShapeTotal
            /\ ww = 1 => \A i \in Competitors :
                            field[i].place \in {1, 2, 3, 4, 5, 9, 17}
    ]_vars

\* two trials of the 24 shape are complete; seed 1 won one championship
\* match and lost the other
C14_Witness ==
    /\ pc = "loop"
    /\ ww = 2
    /\ Len(field) = 24
    /\ Len(matches) = 23
    /\ field[1].place = 1 + 2
    /\ PlaceTotal(field) = 2 * ShapeTotal

(***************************************************************************)
(* C15.  For a roster with the unique dense seeds 1..N, whatever the order *)
(* of its rows, the lookup f(s) returns the competitor whose seed is s, so *)
(* what a match step credits to the winner and to the loser goes to the    *)
(* records carrying their seeds.                                           *)
(***************************************************************************)
\* the seeds of the roster are unique and dense
DenseSeeds == {field[i].seed : i \in Competitors} = Competitors

C15_LookupBySeed ==
    [][/\ (pc \in {"loop", "match", "credit", "done"} /\ DenseSeeds) =>
            \A s \in Competitors : field[s].seed = s
       /\ (MatchStep /\ DenseSeeds) =>
            \A i \in Competitors :
               field'[i] # field[i] => field[i].seed \in {StepWinner, StepLoser}
    ]_vars

(***************************************************************************)
(* C16.  A run writes over an existing result file only when that file is  *)
(* the most recent version and its stored input and iteration count equal  *)
(* the run's; in every other case with files present the run writes to a   *)
(* path that did not exist, one version above the highest; the files the   *)
(* run does not write to stay as they were.                                *)
(***************************************************************************)
\* the most recent version of the directory: the highest, or the base file
MostRecent == Highest(DOMAIN dir \cup {0})

C16_NoResultLost ==
    [][(pc = "out" /\ written'.run = written.run + 1) =>
          LET path == written'.path
              same == /\ MostRecent \in DOMAIN dir
                      /\ dir[MostRecent].readable
                      /\ dir[MostRecent].input = written'.input
                      /\ dir[MostRecent].iterations = written'.iterations
          IN  /\ path \in DOMAIN dir => (path = MostRecent /\ same)
              /\ (DOMAIN dir # {} /\ ~same) =>
                    (path \notin DOMAIN dir /\ path = MostRecent + 1)
              /\ \A v \in DOMAIN dir \ {path} : dir'[v] = dir[v]
    ]_vars

====
